---- MODULE Spec2Model ----
(***************************************************************************)
(* Model of the meal-timing and macro-allocation engine of rmuthura/optimal *)
(* (src/src/meal_timing.py, macro_allocation.py, circadian.py, mps.py,      *)
(* scheduler.py, models.py).                                                *)
(*                                                                          *)
(* A datetime.time is a record [hour, minute]; an Optional time that is     *)
(* None is the record NoneTime.  Enum members are their string values.      *)
(* Python floats are modelled by exact rationals held as integers over a    *)
(* fixed denominator (stated at each definition).                           *)
(***************************************************************************)
EXTENDS Integers, Sequences, FiniteSets, TLC

(***************************************************************************)
(* Bounds of the model.                                                     *)
(***************************************************************************)
\* num_meals is drawn from 0..MaxMeals (3..6 is the documented range).
MaxMeals == 7
\* How many times the wall-clock date may roll over while the engine runs.
MaxMidnights == 1

(***************************************************************************)
(* models.py                                                                *)
(***************************************************************************)
BREAKFAST == "breakfast"
LUNCH == "lunch"
DINNER == "dinner"
PRE_WORKOUT == "pre_workout"
POST_WORKOUT == "post_workout"
SNACK == "snack"

MealType == {BREAKFAST, LUNCH, DINNER, PRE_WORKOUT, POST_WORKOUT, SNACK}

\* WorkoutType values; "None" stands for an absent workout_type.
WorkoutType == {"lifting", "cardio", "hybrid"}

\* The None of an Optional[time].
NoneTime == [hour |-> -1, minute |-> -1, second |-> -1]

\* datetime.time(hour, minute): second is 0.  The second field stands for the
\* part of a datetime.time below the minute.
Time(h, m) == [hour |-> h, minute |-> m, second |-> 0]

(***************************************************************************)
(* meal_timing.py: time arithmetic                                          *)
(***************************************************************************)
time_to_minutes(t) == t.hour * 60 + t.minute

\* Mutant: the minutes are not reduced modulo one day.
minutes_to_time_no_wrap(minutes) ==
    Time(minutes \div 60, minutes % 60)

minutes_to_time(minutes) ==
    LET m == minutes % (24 * 60)
    IN  Time(m \div 60, m % 60)

add_minutes_to_time(t, minutes) ==
    minutes_to_time(time_to_minutes(t) + minutes)

\* Mutant: the next-day correction is left out.
time_difference_no_wrap(t1, t2) ==
    time_to_minutes(t2) - time_to_minutes(t1)

time_difference_minutes(t1, t2) ==
    LET diff == time_to_minutes(t2) - time_to_minutes(t1)
    IN  IF diff < -12 * 60 THEN diff + 24 * 60 ELSE diff

(***************************************************************************)
(* meal_timing.py: anchors.  The dict is the sequence of its items in       *)
(* insertion order.                                                         *)
(***************************************************************************)
AnchorPoint(k, t, ty, p) == [key |-> k, time |-> t, meal_type |-> ty, priority |-> p]

\* Mutant: the workout anchors are added without testing workout_time.
calculate_anchor_points_always_workout(u) ==
    << AnchorPoint("first_meal", add_minutes_to_time(u.wake_time, 45), BREAKFAST, 3),
       AnchorPoint("last_meal", add_minutes_to_time(u.sleep_time, -165), DINNER, 3),
       AnchorPoint("pre_workout", add_minutes_to_time(u.workout_time, -105), PRE_WORKOUT, 4),
       AnchorPoint("post_workout",
                   add_minutes_to_time(
                       add_minutes_to_time(u.workout_time, u.workout_duration_min), 75),
                   POST_WORKOUT, 5) >>

calculate_anchor_points(u) ==
    LET first_meal_time == add_minutes_to_time(u.wake_time, 45)
        last_meal_time  == add_minutes_to_time(u.sleep_time, -165)
        base == << AnchorPoint("first_meal", first_meal_time, BREAKFAST, 3),
                   AnchorPoint("last_meal", last_meal_time, DINNER, 3) >>
    IN  IF u.workout_time # NoneTime
        THEN LET pre_workout_time  == add_minutes_to_time(u.workout_time, -105)
                 workout_end       == add_minutes_to_time(u.workout_time, u.workout_duration_min)
                 post_workout_time == add_minutes_to_time(workout_end, 75)
             IN  base \o << AnchorPoint("pre_workout", pre_workout_time, PRE_WORKOUT, 4),
                            AnchorPoint("post_workout", post_workout_time, POST_WORKOUT, 5) >>
        ELSE base

get_available_window(u) ==
    [first_possible |-> add_minutes_to_time(u.wake_time, 30),
     last_possible  |-> add_minutes_to_time(u.sleep_time, -120)]

get_workout_end_time(u) ==
    IF u.workout_time = NoneTime THEN NoneTime
    ELSE add_minutes_to_time(u.workout_time, u.workout_duration_min)

(***************************************************************************)
(* meal_timing.py: distribute_meals.  A meal of the working list is the     *)
(* tuple (time, type, priority) as a record.                                *)
(***************************************************************************)
MIN_GAP == 150
MAX_GAP == 300

Meal(t, ty, p) == [time |-> t, meal_type |-> ty, priority |-> p]

\* Mutant: the list is left in the order it has.
SortByTime_unsorted(ms) == ms

\* Mutant: the priorities are sorted ascending.
SortByPriorityAsc(ms) ==
    LET n == Len(ms)
        k(i) == ms[i].priority
        rank(i) == Cardinality({j \in 1..n : k(j) < k(i) \/ (k(j) = k(i) /\ j < i)}) + 1
    IN  [p \in 1..n |-> ms[CHOOSE i \in 1..n : rank(i) = p]]

\* list.sort(key=...) is stable: position of element i is the number of
\* elements with a smaller key, or an equal key and a smaller index.
SortByTime(ms) ==
    LET n == Len(ms)
        k(i) == time_to_minutes(ms[i].time)
        rank(i) == Cardinality({j \in 1..n : k(j) < k(i) \/ (k(j) = k(i) /\ j < i)}) + 1
    IN  [p \in 1..n |-> ms[CHOOSE i \in 1..n : rank(i) = p]]

SortByPriorityDesc(ms) ==
    LET n == Len(ms)
        k(i) == -ms[i].priority
        rank(i) == Cardinality({j \in 1..n : k(j) < k(i) \/ (k(j) = k(i) /\ j < i)}) + 1
    IN  [p \in 1..n |-> ms[CHOOSE i \in 1..n : rank(i) = p]]

\* meals[:count] for count >= 0
Prefix(ms, count) == SubSeq(ms, 1, IF count < Len(ms) THEN count ELSE Len(ms))

\* lines 144-151: the anchors as a time-sorted working list
SeedMeals(anchors) ==
    SortByTime([i \in 1..Len(anchors) |->
                  Meal(anchors[i].time, anchors[i].meal_type, anchors[i].priority)])

\* Mutant: the slice to num_meals is left out.
TrimMeals_no_slice(ms, num_meals) ==
    SortByTime(SortByPriorityDesc(ms))

\* lines 160-163: keep the highest-priority anchors
TrimMeals(ms, num_meals) ==
    SortByTime(Prefix(SortByPriorityDesc(ms), num_meals))

\* Mutant: the types already in the list are not looked at.
_determine_meal_type_by_time_only(meal_time, u, existing_meals) ==
    LET mins_since_wake == time_difference_minutes(u.wake_time, meal_time)
    IN  IF mins_since_wake < 4 * 60 THEN BREAKFAST
        ELSE IF mins_since_wake < 8 * 60 THEN LUNCH
        ELSE IF mins_since_wake > 10 * 60 THEN DINNER
        ELSE SNACK

_determine_meal_type(meal_time, u, existing_meals) ==
    LET mins_since_wake == time_difference_minutes(u.wake_time, meal_time)
        existing_types  == {existing_meals[i].meal_type : i \in 1..Len(existing_meals)}
    IN  IF mins_since_wake < 4 * 60 /\ BREAKFAST \notin existing_types THEN BREAKFAST
        ELSE IF mins_since_wake < 8 * 60 /\ LUNCH \notin existing_types THEN LUNCH
        ELSE IF mins_since_wake > 10 * 60 /\ DINNER \notin existing_types THEN DINNER
        ELSE SNACK

\* The gaps one iteration of the insertion loop looks at, in the order it
\* looks at them: before the first meal, between meals, after the last meal.
\* idx is the 0-based insert index of the code.
GapCandidates(u, ms) ==
    LET w == get_available_window(u)
        window_start == w.first_possible
        window_end   == w.last_possible
        n == Len(ms)
        first_time == IF n > 0 THEN ms[1].time ELSE window_end
        gap_before == time_difference_minutes(window_start, first_time)
        before == << [gap |-> gap_before, idx |-> 0,
                      time |-> add_minutes_to_time(window_start, gap_before \div 2)] >>
        between == [i \in 1..(IF n > 0 THEN n - 1 ELSE 0) |->
                      LET gap == time_difference_minutes(ms[i].time, ms[i + 1].time)
                      IN  [gap |-> gap, idx |-> i,
                           time |-> minutes_to_time(time_to_minutes(ms[i].time) + gap \div 2)]]
        after == IF n > 0
                 THEN LET last_time == ms[n].time
                          gap_after == time_difference_minutes(last_time, window_end)
                      IN  << [gap |-> gap_after, idx |-> n,
                              time |-> add_minutes_to_time(last_time, gap_after \div 2)] >>
                 ELSE << >>
    IN  before \o between \o after

\* The scan of lines 172-201: the candidate kept is the first one of the
\* largest eligible gap; 0 when no gap is eligible (insert_time stays None).
RECURSIVE ScanGaps(_, _, _, _)
ScanGaps(cands, i, largest_gap, best) ==
    IF i > Len(cands) THEN best
    ELSE IF cands[i].gap > largest_gap /\ cands[i].gap >= MIN_GAP * 2
         THEN ScanGaps(cands, i + 1, cands[i].gap, i)
         ELSE ScanGaps(cands, i + 1, largest_gap, best)

\* Mutant: of several largest gaps the last one is kept.
ChosenGap_last_on_ties(u, ms) ==
    LET cands == GapCandidates(u, ms)
        largest == {i \in 1..Len(cands) :
                       /\ cands[i].gap >= MIN_GAP * 2
                       /\ \A j \in 1..Len(cands) : cands[j].gap <= cands[i].gap}
    IN  IF largest = {} THEN 0 ELSE CHOOSE i \in largest : \A j \in largest : j <= i

ChosenGap(u, ms) == ScanGaps(GapCandidates(u, ms), 1, 0, 0)

\* list.insert(idx, x) with a 0-based idx in 0..len
ListInsert(ms, idx, x) == SubSeq(ms, 1, idx) \o << x >> \o SubSeq(ms, idx + 1, Len(ms))

\* One iteration of the loop of lines 170-207.
InsertOneMeal(u, ms) ==
    LET cands == GapCandidates(u, ms)
        c == ChosenGap(u, ms)
    IN  IF c = 0 THEN ms
        ELSE ListInsert(ms, cands[c].idx,
                        Meal(cands[c].time, _determine_meal_type(cands[c].time, u, ms), 1))

\* lines 165 and 211: drop the priority
ReturnMeals(ms) == [i \in 1..Len(ms) |-> [time |-> ms[i].time, meal_type |-> ms[i].meal_type]]

(***************************************************************************)
(* meal_timing.py: validate_meal_schedule.  A violation is the record of    *)
(* its kind and of the 1-based meal number its message names.               *)
(***************************************************************************)
\* SelectSeq without an operator argument: the elements of s at the indices of keep
RECURSIVE Collect(_, _, _)
Collect(n, keep, f) ==
    IF n = 0 THEN << >>
    ELSE IF n \in keep THEN Append(Collect(n - 1, keep, f), f[n])
         ELSE Collect(n - 1, keep, f)

\* Mutant: the meals close to sleep_time are not looked for.
validate_meal_schedule_no_sleep_check(ms, u) ==
    LET n == Len(ms)
        pairs == 1..(IF n > 0 THEN n - 1 ELSE 0)
        gap(i) == time_difference_minutes(ms[i].time, ms[i + 1].time)
        \* both checks of one pair are appended before the next pair is looked at
        gapSlots == [k \in 1..(2 * (IF n > 0 THEN n - 1 ELSE 0)) |->
                       LET i == (k + 1) \div 2
                       IN  IF k % 2 = 1 THEN [kind |-> "too_close", meal |-> i]
                           ELSE [kind |-> "too_large", meal |-> i]]
        gapKeep == {k \in DOMAIN gapSlots :
                       LET i == (k + 1) \div 2
                       IN  IF k % 2 = 1 THEN gap(i) < MIN_GAP ELSE gap(i) > MAX_GAP}
        sleepSlots == [i \in 1..n |-> [kind |-> "near_sleep", meal |-> i]]
        sleepKeep == {}
        workoutSlots == [i \in 1..n |-> [kind |-> "near_workout", meal |-> i]]
        workoutKeep == IF u.workout_time = NoneTime THEN {}
                       ELSE {i \in 1..n :
                               LET mins_to_workout == time_difference_minutes(ms[i].time, u.workout_time)
                               IN  0 < mins_to_workout /\ mins_to_workout < 30}
    IN  Collect(Len(gapSlots), gapKeep, gapSlots)
        \o Collect(n, sleepKeep, sleepSlots)
        \o Collect(n, workoutKeep, workoutSlots)

validate_meal_schedule(ms, u) ==
    LET n == Len(ms)
        pairs == 1..(IF n > 0 THEN n - 1 ELSE 0)
        gap(i) == time_difference_minutes(ms[i].time, ms[i + 1].time)
        \* both checks of one pair are appended before the next pair is looked at
        gapSlots == [k \in 1..(2 * (IF n > 0 THEN n - 1 ELSE 0)) |->
                       LET i == (k + 1) \div 2
                       IN  IF k % 2 = 1 THEN [kind |-> "too_close", meal |-> i]
                           ELSE [kind |-> "too_large", meal |-> i]]
        gapKeep == {k \in DOMAIN gapSlots :
                       LET i == (k + 1) \div 2
                       IN  IF k % 2 = 1 THEN gap(i) < MIN_GAP ELSE gap(i) > MAX_GAP}
        sleepSlots == [i \in 1..n |-> [kind |-> "near_sleep", meal |-> i]]
        sleepKeep == {i \in 1..n :
                        LET mins_to_sleep == time_difference_minutes(ms[i].time, u.sleep_time)
                        IN  0 < mins_to_sleep /\ mins_to_sleep < 120}
        workoutSlots == [i \in 1..n |-> [kind |-> "near_workout", meal |-> i]]
        workoutKeep == IF u.workout_time = NoneTime THEN {}
                       ELSE {i \in 1..n :
                               LET mins_to_workout == time_difference_minutes(ms[i].time, u.workout_time)
                               IN  0 < mins_to_workout /\ mins_to_workout < 30}
    IN  Collect(Len(gapSlots), gapKeep, gapSlots)
        \o Collect(n, sleepKeep, sleepSlots)
        \o Collect(n, workoutKeep, workoutSlots)

(***************************************************************************)
(* circadian.py.  Each datetime.now() reads the wall clock: date1 and date2 *)
(* are the day numbers the two reads of hours_since_waking see.  The result *)
(* is in minutes (the code's hours times 60).                               *)
(***************************************************************************)
hours_since_waking(wake_time, current_time, date1, date2) ==
    LET wake_dt    == date1 * 24 * 60 + time_to_minutes(wake_time)
        current_dt == date2 * 24 * 60 + time_to_minutes(current_time)
        current_dt2 == IF current_dt < wake_dt THEN current_dt + 24 * 60 ELSE current_dt
    IN  current_dt2 - wake_dt

\* The score in tenths: 9 is 0.9.
get_insulin_sensitivity(wake_time, meal_time, date1, date2) ==
    LET mins == hours_since_waking(wake_time, meal_time, date1, date2)
    IN  IF mins < 0 THEN 3
        ELSE IF mins < 2 * 60 THEN 9
        ELSE IF mins < 6 * 60 THEN 10
        ELSE IF mins < 10 * 60 THEN 7
        ELSE IF mins < 14 * 60 THEN 5
        ELSE 3

(***************************************************************************)
(* mps.py                                                                   *)
(***************************************************************************)
MIN_PROTEIN_PER_MEAL == 25

\* boost_factor in hundredths
BoostFactor(workout_type) ==
    IF workout_type = "lifting" THEN 135
    ELSE IF workout_type = "hybrid" THEN 132
    ELSE 130

Min(a, b) == IF a < b THEN a ELSE b
Max(a, b) == IF a > b THEN a ELSE b

\* Mutant: the boosted protein is not capped.
get_post_workout_protein_boost_uncapped(base_protein, workout_type) ==
    (base_protein * BoostFactor(workout_type)) \div 100

\* called with is_post_workout = True only
get_post_workout_protein_boost(base_protein, workout_type) ==
    LET boosted == (base_protein * BoostFactor(workout_type)) \div 100
    IN  Min(boosted, 50)

(***************************************************************************)
(* macro_allocation.py: allocate_macros.  With n meals a raw allocation     *)
(* holds protein in units of 1/n g, carbs in units of 1/(35 n) g and fat in *)
(* units of 1/(2 n) g, so that every value the code computes is an integer. *)
(***************************************************************************)
CarbUnit == 35
FatUnit == 2

\* Mutant: the pre-sleep reduction leaves the pre-workout carbs alone.
RawAllocation_bump_kept(m, u, n, date1, date2) ==
    LET base_protein == u.daily_protein_g          \* / n
        base_carbs   == u.daily_carbs_g * CarbUnit \* / (35 n)
        base_fat     == u.daily_fat_g * FatUnit    \* / (2 n)
        insulin_sens == get_insulin_sensitivity(u.wake_time, m.time, date1, date2)
        is_post_workout == m.meal_type = POST_WORKOUT
        is_pre_workout  == m.meal_type = PRE_WORKOUT
        mins_to_sleep == time_difference_minutes(m.time, u.sleep_time)
        pre_sleep == 0 < mins_to_sleep /\ mins_to_sleep <= 3 * 60
        protein1 == IF is_post_workout /\ u.workout_type # "None"
                    THEN n * get_post_workout_protein_boost(u.daily_protein_g \div n, u.workout_type)
                    ELSE base_protein
        carbs1 == (u.daily_carbs_g * insulin_sens * CarbUnit) \div 7
        carbs2 == IF is_pre_workout THEN (u.daily_carbs_g * CarbUnit * 12) \div 10 ELSE carbs1
        fat1   == IF is_pre_workout THEN base_fat \div 2 ELSE base_fat
    IN  [protein |-> IF pre_sleep THEN Min(protein1, 35 * n) ELSE protein1,
         carbs   |-> IF pre_sleep /\ ~is_pre_workout
                     THEN (u.daily_carbs_g * CarbUnit * 6) \div 10 ELSE carbs2,
         fat     |-> fat1,
         meal_type |-> m.meal_type]

\* lines 72-112 for one meal
RawAllocation(m, u, n, date1, date2) ==
    LET base_protein == u.daily_protein_g          \* / n
        base_carbs   == u.daily_carbs_g * CarbUnit \* / (35 n)
        base_fat     == u.daily_fat_g * FatUnit    \* / (2 n)
        insulin_sens == get_insulin_sensitivity(u.wake_time, m.time, date1, date2)
        is_post_workout == m.meal_type = POST_WORKOUT
        is_pre_workout  == m.meal_type = PRE_WORKOUT
        mins_to_sleep == time_difference_minutes(m.time, u.sleep_time)
        pre_sleep == 0 < mins_to_sleep /\ mins_to_sleep <= 3 * 60
        protein1 == IF is_post_workout /\ u.workout_type # "None"
                    THEN n * get_post_workout_protein_boost(u.daily_protein_g \div n, u.workout_type)
                    ELSE base_protein
        carbs1 == (u.daily_carbs_g * insulin_sens * CarbUnit) \div 7
        carbs2 == IF is_pre_workout THEN (u.daily_carbs_g * CarbUnit * 12) \div 10 ELSE carbs1
        fat1   == IF is_pre_workout THEN base_fat \div 2 ELSE base_fat
    IN  [protein |-> IF pre_sleep THEN Min(protein1, 35 * n) ELSE protein1,
         carbs   |-> IF pre_sleep THEN (u.daily_carbs_g * CarbUnit * 6) \div 10 ELSE carbs2,
         fat     |-> fat1,
         meal_type |-> m.meal_type]

\* Python's round() of the rational a / b (b > 0): to nearest, ties to even
Round(a, b) ==
    LET q == a \div b
        r == a % b
    IN  IF 2 * r < b THEN q
        ELSE IF 2 * r > b THEN q + 1
        ELSE IF q % 2 = 0 THEN q ELSE q + 1

\* sum(...) over a list of numbers
RECURSIVE SumSeq(_)
SumSeq(s) == IF Len(s) = 0 THEN 0 ELSE s[1] + SumSeq(Tail(s))

\* Mutant: fat is counted at 4 kcal per gram.
calculate_calories_fat4(protein, carbs, fat) == protein * 4 + carbs * 4 + fat * 4

calculate_calories(protein, carbs, fat) == protein * 4 + carbs * 4 + fat * 9

\* Mutant: the last meal keeps the bare remainder.
FinalProtein_last_unclamped(raw, u, i, running_protein) ==
    LET total_protein == SumSeq([k \in 1..Len(raw) |-> raw[k].protein])
    IN  IF i = Len(raw) THEN u.daily_protein_g - running_protein
        ELSE IF total_protein > 0
             THEN Max(Round(raw[i].protein * u.daily_protein_g, total_protein),
                      MIN_PROTEIN_PER_MEAL)
             ELSE Max(Round(raw[i].protein, Len(raw)), MIN_PROTEIN_PER_MEAL)

\* lines 133-144 for the protein of meal i, given the protein already assigned
FinalProtein(raw, u, i, running_protein) ==
    LET total_protein == SumSeq([k \in 1..Len(raw) |-> raw[k].protein])
        protein == IF i = Len(raw) THEN u.daily_protein_g - running_protein
                   ELSE IF total_protein > 0
                        THEN Round(raw[i].protein * u.daily_protein_g, total_protein)
                        ELSE Round(raw[i].protein, Len(raw))
    IN  Max(protein, MIN_PROTEIN_PER_MEAL)

\* Mutant: the last meal is scaled and rounded like the others.
FinalCarbs_no_remainder(raw, u, i, running_carbs) ==
    LET total_carbs == SumSeq([k \in 1..Len(raw) |-> raw[k].carbs])
    IN  IF total_carbs > 0
        THEN Round(raw[i].carbs * u.daily_carbs_g, total_carbs)
        ELSE Round(raw[i].carbs, CarbUnit * Len(raw))

FinalCarbs(raw, u, i, running_carbs) ==
    LET total_carbs == SumSeq([k \in 1..Len(raw) |-> raw[k].carbs])
    IN  IF i = Len(raw) THEN u.daily_carbs_g - running_carbs
        ELSE IF total_carbs > 0
             THEN Round(raw[i].carbs * u.daily_carbs_g, total_carbs)
             ELSE Round(raw[i].carbs, CarbUnit * Len(raw))

FinalFat(raw, u, i, running_fat) ==
    LET total_fat == SumSeq([k \in 1..Len(raw) |-> raw[k].fat])
    IN  IF i = Len(raw) THEN u.daily_fat_g - running_fat
        ELSE IF total_fat > 0
             THEN Round(raw[i].fat * u.daily_fat_g, total_fat)
             ELSE Round(raw[i].fat, FatUnit * Len(raw))

\* lines 125-159: the first i final allocations
RECURSIVE FinalAllocations(_, _, _)
FinalAllocations(raw, u, i) ==
    IF i = 0 THEN << >>
    ELSE LET done == FinalAllocations(raw, u, i - 1)
             protein == FinalProtein(raw, u, i, SumSeq([k \in 1..(i - 1) |-> done[k].protein_g]))
             carbs   == FinalCarbs(raw, u, i, SumSeq([k \in 1..(i - 1) |-> done[k].carbs_g]))
             fat     == FinalFat(raw, u, i, SumSeq([k \in 1..(i - 1) |-> done[k].fat_g]))
         IN  Append(done, [protein_g |-> protein, carbs_g |-> carbs, fat_g |-> fat,
                           calories |-> calculate_calories(protein, carbs, fat)])

(***************************************************************************)
(* macro_allocation.py: generate_meal_reasoning.  The text is the sequence  *)
(* of its phrases; a phrase is [text, arg], arg being the number formatted  *)
(* into it (0 when there is none).                                          *)
(***************************************************************************)
Phrase(text) == [text |-> text, arg |-> 0]

\* Mutant: the text is cut to two phrases.
generate_meal_reasoning_two_phrases(meal_time, meal_type, u, a, b, c, d) ==
    LET mins_since_wake == hours_since_waking(u.wake_time, meal_time, a, b)
        insulin_sens    == get_insulin_sensitivity(u.wake_time, meal_time, c, d)
        mins_to_sleep   == time_difference_minutes(meal_time, u.sleep_time)
        time_reasons ==
            IF mins_since_wake < 90
            THEN << Phrase("Post-wake cortisol clearing, high insulin sensitivity"),
                    Phrase("Hit leucine threshold to kickstart MPS") >>
            ELSE IF insulin_sens >= 9
            THEN << Phrase("Peak circadian insulin sensitivity window"),
                    Phrase("Optimal time for carbohydrate intake") >>
            ELSE IF insulin_sens >= 7 THEN << Phrase("Good insulin sensitivity") >>
            ELSE IF insulin_sens <= 5 THEN << Phrase("Lower insulin sensitivity, carbs minimized") >>
            ELSE << >>
        workout_reasons ==
            IF meal_type = PRE_WORKOUT
            THEN << [text |-> "min pre-workout",
                     arg |-> time_difference_minutes(meal_time, u.workout_time)],
                    Phrase("Low fat for fast gastric emptying"),
                    Phrase("Carbs to top off muscle glycogen") >>
            ELSE IF meal_type = POST_WORKOUT
            THEN << Phrase("MPS peak window (1-4hr post-workout)"),
                    Phrase("Glycogen synthase elevated"),
                    Phrase("Largest protein bolus for maximum MPS") >>
            ELSE << >>
        sleep_reasons ==
            IF 0 < mins_to_sleep /\ mins_to_sleep <= 210
            THEN << Phrase("Pre-sleep protein supports overnight MPS") >>
                 \o (IF mins_to_sleep < 150
                     THEN << Phrase("Reduced carbs to preserve sleep quality") >>
                     ELSE << >>)
            ELSE << >>
        reasons == time_reasons \o workout_reasons \o sleep_reasons
        limited == IF Len(reasons) > 2 THEN SubSeq(reasons, 1, 2) ELSE reasons
    IN  IF Len(limited) > 0 THEN limited ELSE << Phrase("Balanced meal timing") >>

\* the clock is read four times: dates a, b in hours_since_waking and
\* c, d in get_insulin_sensitivity
generate_meal_reasoning(meal_time, meal_type, u, a, b, c, d) ==
    LET mins_since_wake == hours_since_waking(u.wake_time, meal_time, a, b)
        insulin_sens    == get_insulin_sensitivity(u.wake_time, meal_time, c, d)
        mins_to_sleep   == time_difference_minutes(meal_time, u.sleep_time)
        time_reasons ==
            IF mins_since_wake < 90
            THEN << Phrase("Post-wake cortisol clearing, high insulin sensitivity"),
                    Phrase("Hit leucine threshold to kickstart MPS") >>
            ELSE IF insulin_sens >= 9
            THEN << Phrase("Peak circadian insulin sensitivity window"),
                    Phrase("Optimal time for carbohydrate intake") >>
            ELSE IF insulin_sens >= 7 THEN << Phrase("Good insulin sensitivity") >>
            ELSE IF insulin_sens <= 5 THEN << Phrase("Lower insulin sensitivity, carbs minimized") >>
            ELSE << >>
        workout_reasons ==
            IF meal_type = PRE_WORKOUT
            THEN << [text |-> "min pre-workout",
                     arg |-> time_difference_minutes(meal_time, u.workout_time)],
                    Phrase("Low fat for fast gastric emptying"),
                    Phrase("Carbs to top off muscle glycogen") >>
            ELSE IF meal_type = POST_WORKOUT
            THEN << Phrase("MPS peak window (1-4hr post-workout)"),
                    Phrase("Glycogen synthase elevated"),
                    Phrase("Largest protein bolus for maximum MPS") >>
            ELSE << >>
        sleep_reasons ==
            IF 0 < mins_to_sleep /\ mins_to_sleep <= 210
            THEN << Phrase("Pre-sleep protein supports overnight MPS") >>
                 \o (IF mins_to_sleep < 150
                     THEN << Phrase("Reduced carbs to preserve sleep quality") >>
                     ELSE << >>)
            ELSE << >>
        reasons == time_reasons \o workout_reasons \o sleep_reasons
        limited == IF Len(reasons) > 3 THEN SubSeq(reasons, 1, 3) ELSE reasons
    IN  IF Len(limited) > 0 THEN limited ELSE << Phrase("Balanced meal timing") >>

(***************************************************************************)
(* Inputs.  A request is the user_data dictionary with its times already    *)
(* parsed; parse_user_inputs copies the fields without checking them.       *)
(***************************************************************************)
UserData(wake, sleep, workout, wtype, dur, protein, carbs, fat, n) ==
    [wake_time |-> wake, sleep_time |-> sleep, workout_time |-> workout,
     workout_type |-> wtype, workout_duration_min |-> dur,
     daily_protein_g |-> protein, daily_carbs_g |-> carbs, daily_fat_g |-> fat,
     num_meals |-> n]

\* parse_time returns a datetime.time argument as it is (lines 23-24)
parse_time(t) == t

\* The fields are copied without any check of their range.  daily_calories
\* and goal are left out: UserInputs reads them only to derive a carb or fat
\* target that is None, and every request here gives both.
parse_user_inputs(data) ==
    [wake_time |-> parse_time(data.wake_time),
     sleep_time |-> parse_time(data.sleep_time),
     workout_time |-> IF data.workout_time # NoneTime THEN parse_time(data.workout_time)
                      ELSE NoneTime,
     workout_type |-> data.workout_type,
     workout_duration_min |-> data.workout_duration_min,
     daily_protein_g |-> data.daily_protein_g,
     daily_carbs_g |-> data.daily_carbs_g,
     daily_fat_g |-> data.daily_fat_g,
     num_meals |-> data.num_meals]

\* the documented example day
ExampleRequest ==
    UserData(Time(7, 0), Time(23, 0), Time(17, 0), "lifting", 60, 180, 280, 70, 4)

\* Requests that exercise meal timing: ordinary days, a day that wraps past
\* midnight (wake 22:00, sleep 14:00), a day too short for fillers, anchors
\* that coincide (sleep = wake + 3h30; workout = wake + 2h30).
WakeTimes == {Time(6, 0), Time(7, 0), Time(22, 0)}
SleepTimes == {Time(23, 0), Time(22, 0), Time(14, 0), Time(10, 30)}
WorkoutTimes == {NoneTime, Time(17, 0), Time(7, 0), Time(9, 30), Time(22, 30)}
Durations == {60, 90}

TimingRequests ==
    {UserData(wake, sleep, workout, wtype, dur, 180, 280, 70, n) :
        wake \in WakeTimes, sleep \in SleepTimes, workout \in WorkoutTimes,
        wtype \in {"None", "lifting"}, dur \in Durations, n \in 0..MaxMeals}

\* Requests that exercise macro allocation: the documented example day and a
\* rest day, with targets around 0 and around the documented example values.
MacroJitter == 1
ProteinTargets == {b + j : b \in {0, 60, 100, 180}, j \in 0..MacroJitter}
CarbFatTargets == {<<c + j, f + j>> : c \in {0, 280}, f \in {0, 70}, j \in 0..MacroJitter}

MacroRequests ==
    {UserData(Time(7, 0), Time(23, 0), workout, wtype, 60, protein, cf[1], cf[2], n) :
        workout \in {NoneTime, Time(17, 0)}, wtype \in WorkoutType \cup {"None"},
        protein \in ProteinTargets, cf \in CarbFatTargets, n \in 3..6}

\* Requests with carbohydrate and fat targets of a few grams, smaller than the
\* number of meals the rounding of the earlier meals can hand out.
LeanRequests ==
    {UserData(Time(7, 0), Time(23, 0), workout, IF workout = NoneTime THEN "None" ELSE "lifting",
              60, 180, g, g, n) :
        workout \in {NoneTime, Time(17, 0), Time(9, 30)}, g \in {2, 3}, n \in 3..6}

\* A day that wraps past midnight and leaves 90 minutes between sleep_time
\* and the next wake_time, with a 90-minute workout.
LongDayRequests ==
    {UserData(Time(5, 0), Time(6, 30), Time(17, 0), "lifting", 90, 180, 280, 70, n) :
        n \in 3..MaxMeals}

Requests == TimingRequests \cup MacroRequests \cup LeanRequests \cup LongDayRequests

(***************************************************************************)
(* scheduler.py: generate_schedule as a state machine.  pc is the position  *)
(* in the function; today is the day number of the wall clock.              *)
(***************************************************************************)
VARIABLES
    entry,          \* the function invoked: generate_schedule or generate_schedule_from_inputs
    calc,           \* a direct call of one helper: its arguments and results
    user_data,      \* the argument of generate_schedule
    pc,             \* position in generate_schedule
    user,           \* << >> or <<UserInputs>>
    anchors,        \* result of calculate_anchor_points
    meals,          \* working list of distribute_meals
    needed,         \* distribute_meals: needed
    iter,           \* distribute_meals: iterations of the insertion loop done
    meal_times,     \* result of distribute_meals
    violations,     \* result of validate_meal_schedule
    raw,            \* allocate_macros: raw_allocations
    macro_allocations, \* result of allocate_macros
    base_date,      \* generate_schedule: base_date (a day number)
    schedule,       \* DaySchedule.meals built so far
    error,          \* the exception that left generate_schedule, or "None"
    today,          \* the wall clock's date
    call,           \* which invocation on user_data this is
    first,          \* the DaySchedule.meals the first invocation returned
    registry,       \* the jobs of the process-wide default scheduler of the schedule library
    notifier,       \* the ScheduledNotifier instances and their schedule_meals calls
    scheduled_notifier, \* app/main.py: the global scheduled_notifier, 0 for None
    last_scheduled  \* history: the DaySchedule.meals of the schedule_meals call that returned last

vars == << entry, calc, user_data, pc, user, anchors, meals, needed, iter, meal_times, violations,
           raw, macro_allocations, base_date, schedule, error, today, call, first,
           registry, notifier, scheduled_notifier, last_scheduled >>

\* the state of the notifications
notifications == << registry, notifier, scheduled_notifier, last_scheduled >>

\* the locals of one invocation
locals == << user, anchors, meals, needed, iter, meal_times, violations,
             raw, macro_allocations, base_date, schedule, error >>

Entry ==
    /\ pc = "parse"
    /\ user = << >>
    /\ anchors = << >>
    /\ meals = << >>
    /\ needed = 0
    /\ iter = 0
    /\ meal_times = << >>
    /\ violations = << >>
    /\ raw = << >>
    /\ macro_allocations = << >>
    /\ base_date = 0
    /\ schedule = << >>
    /\ error = "None"

\* no helper is called directly
NoCalc == [op |-> "none", t1 |-> NoneTime, t2 |-> NoneTime, n |-> 0, ms |-> << >>,
           done |-> FALSE, m |-> 0, t |-> NoneTime, u |-> NoneTime, vs |-> << >>]

\* How many ScheduledNotifier instances the process creates.
MaxInstances == 2
\* How many meals a DaySchedule handed to schedule_meals has at most.
MaxScheduled == 2
Instances == 1..MaxInstances

\* notifier.py lines 139-147 (__init__); pc is the position of the instance's
\* schedule_meals call, day_schedule its argument, i the meals its loop has done
NewInstance == [constructed |-> TRUE, _scheduled_meals |-> << >>,
                pc |-> "idle", day_schedule |-> << >>, i |-> 0]
NoInstance == [constructed |-> FALSE, _scheduled_meals |-> << >>,
               pc |-> "idle", day_schedule |-> << >>, i |-> 0]

\* no instance exists and nothing was ever scheduled
NoNotifications ==
    /\ registry = << >>
    /\ notifier = [n \in Instances |-> NoInstance]
    /\ scheduled_notifier = 0
    /\ last_scheduled = << >>

\* scheduler.py lines 96-106 and 140-143: generate_schedule validates the
\* distributed meals, generate_schedule_from_inputs goes on to allocate_macros
AfterDistribute == IF entry = "generate_schedule" THEN "validate" ELSE "allocate"

Init ==
    /\ NoNotifications
    /\ entry = "generate_schedule"
    /\ calc = NoCalc
    /\ user_data \in Requests
    /\ Entry
    /\ today = 0
    /\ call = 1
    /\ first = << >>

U == user[1]

\* The dates two successive datetime.now() calls may see: midnight may pass
\* between them.
Ticks == IF today < MaxMidnights THEN {0, 1} ELSE {0}

\* line 90
ParseInputs ==
    /\ pc = "parse"
    /\ user' = << parse_user_inputs(user_data) >>
    /\ pc' = "anchors"
    /\ UNCHANGED << notifications, entry, calc, user_data, anchors, meals, needed, iter, meal_times, violations,
                    raw, macro_allocations, base_date, schedule, error, today, call, first >>

\* line 93
CalculateAnchors ==
    /\ pc = "anchors"
    /\ anchors' = calculate_anchor_points(U)
    /\ pc' = "distribute"
    /\ UNCHANGED << notifications, entry, calc, user_data, user, meals, needed, iter, meal_times, violations,
                    raw, macro_allocations, base_date, schedule, error, today, call, first >>

\* line 96, distribute_meals lines 144-168: seed, and return at once when
\* there are enough anchors
DistributeSeed ==
    /\ pc = "distribute"
    /\ \E seeded \in {SeedMeals(anchors)} :
          LET n == U.num_meals - Len(seeded)
          IN  /\ needed' = n
              /\ iter' = 0
              /\ IF n <= 0
                 THEN \E kept \in {IF n < 0 THEN TrimMeals(seeded, U.num_meals) ELSE seeded} :
                         /\ meals' = kept
                         /\ meal_times' = ReturnMeals(kept)
                         /\ pc' = AfterDistribute
                 ELSE /\ meals' = seeded
                      /\ meal_times' = << >>
                      /\ pc' = "insert"
    /\ UNCHANGED << notifications, entry, calc, user_data, user, anchors, violations,
                    raw, macro_allocations, base_date, schedule, error, today, call, first >>

\* Mutant: an iteration that inserts nothing is not counted.
InsertIteration_until_inserted ==
    /\ pc = "insert"
    /\ iter < needed
    /\ meals' = InsertOneMeal(U, meals)
    /\ iter' = IF InsertOneMeal(U, meals) = meals THEN iter ELSE iter + 1
    /\ UNCHANGED << notifications, entry, calc, user_data, pc, user, anchors, needed, meal_times, violations,
                    raw, macro_allocations, base_date, schedule, error, today, call, first >>

\* distribute_meals lines 170-207: one iteration of the insertion loop
InsertIteration ==
    /\ pc = "insert"
    /\ iter < needed
    /\ meals' = InsertOneMeal(U, meals)
    /\ iter' = iter + 1
    /\ UNCHANGED << notifications, entry, calc, user_data, pc, user, anchors, needed, meal_times, violations,
                    raw, macro_allocations, base_date, schedule, error, today, call, first >>

\* distribute_meals lines 209-211
DistributeReturn ==
    /\ pc = "insert"
    /\ iter = needed
    /\ meals' = SortByTime(meals)
    /\ meal_times' = ReturnMeals(SortByTime(meals))
    /\ pc' = AfterDistribute
    /\ UNCHANGED << notifications, entry, calc, user_data, user, anchors, needed, iter, violations,
                    raw, macro_allocations, base_date, schedule, error, today, call, first >>

\* Mutant: the violations found are not kept.
Validate_dropped ==
    /\ pc = "validate"
    /\ violations' = << >>
    /\ pc' = "allocate"
    /\ UNCHANGED << notifications, entry, calc, user_data, user, anchors, meals, needed, iter, meal_times,
                    raw, macro_allocations, base_date, schedule, error, today, call, first >>

\* lines 99-103
Validate ==
    /\ pc = "validate"
    /\ violations' = validate_meal_schedule(meal_times, U)
    /\ pc' = "allocate"
    /\ UNCHANGED << notifications, entry, calc, user_data, user, anchors, meals, needed, iter, meal_times,
                    raw, macro_allocations, base_date, schedule, error, today, call, first >>

\* line 106, allocate_macros lines 61-67: the base allocations divide by the
\* number of meals
AllocateBase ==
    /\ pc = "allocate"
    /\ IF Len(meal_times) = 0
       THEN /\ error' = "ZeroDivisionError"
            /\ pc' = "raised"
       ELSE /\ error' = error
            /\ pc' = "raw"
    /\ UNCHANGED << notifications, entry, calc, user_data, user, anchors, meals, needed, iter, meal_times, violations,
                    raw, macro_allocations, base_date, schedule, today, call, first >>

\* allocate_macros lines 72-112: the raw allocation of the next meal;
\* get_insulin_sensitivity reads the clock twice
AllocateRaw ==
    /\ pc = "raw"
    /\ Len(raw) < Len(meal_times)
    /\ \E tick \in Ticks :
          /\ raw' = Append(raw, RawAllocation(meal_times[Len(raw) + 1], U, Len(meal_times),
                                              today, today + tick))
          /\ today' = today + tick
    /\ UNCHANGED << notifications, entry, calc, user_data, pc, user, anchors, meals, needed, iter, meal_times, violations,
                    macro_allocations, base_date, schedule, error, call, first >>

\* allocate_macros lines 114-159
Normalize ==
    /\ pc = "raw"
    /\ Len(raw) = Len(meal_times)
    /\ macro_allocations' = FinalAllocations(raw, U, Len(raw))
    /\ pc' = "base_date"
    /\ UNCHANGED << notifications, entry, calc, user_data, user, anchors, meals, needed, iter, meal_times, violations,
                    raw, base_date, schedule, error, today, call, first >>

\* line 109
ReadBaseDate ==
    /\ pc = "base_date"
    /\ base_date' = today
    /\ pc' = "build"
    /\ UNCHANGED << notifications, entry, calc, user_data, user, anchors, meals, needed, iter, meal_times, violations,
                    raw, macro_allocations, schedule, error, today, call, first >>

\* lines 112-125: the next ScheduledMeal; generate_meal_reasoning reads the
\* clock four times
BuildMeal ==
    /\ pc = "build"
    /\ Len(schedule) < Len(meal_times)
    /\ \E t1 \in Ticks, t2 \in Ticks :
          /\ today + t1 + t2 <= MaxMidnights
          /\ LET i == Len(schedule) + 1
                 m == meal_times[i]
                 macros == macro_allocations[i]
                 reasoning == generate_meal_reasoning(m.time, m.meal_type, U,
                                  today, today + t1, today + t1, today + t1 + t2)
             IN  schedule' = Append(schedule,
                     [meal_number |-> i,
                      time |-> [date |-> base_date, time |-> m.time],
                      calories |-> macros.calories,
                      protein_g |-> macros.protein_g,
                      carbs_g |-> macros.carbs_g,
                      fat_g |-> macros.fat_g,
                      reasoning |-> reasoning,
                      meal_type |-> m.meal_type])
          /\ today' = today + t1 + t2
    /\ UNCHANGED << notifications, entry, calc, user_data, pc, user, anchors, meals, needed, iter, meal_times, violations,
                    raw, macro_allocations, base_date, error, call, first >>

\* line 127
ReturnSchedule ==
    /\ pc = "build"
    /\ Len(schedule) = Len(meal_times)
    /\ pc' = "done"
    /\ UNCHANGED << notifications, entry, calc, user_data, user, anchors, meals, needed, iter, meal_times, violations,
                    raw, macro_allocations, base_date, schedule, error, today, call, first >>

\* The wall clock passes midnight while generate_schedule runs.
Midnight ==
    /\ pc \notin {"done", "raised"}
    /\ today < MaxMidnights
    /\ today' = today + 1
    /\ UNCHANGED << notifications, entry, calc, user_data, pc, locals, call, first >>

Next ==
    \/ ParseInputs
    \/ CalculateAnchors
    \/ DistributeSeed
    \/ InsertIteration
    \/ DistributeReturn
    \/ Validate
    \/ AllocateBase
    \/ AllocateRaw
    \/ Normalize
    \/ ReadBaseDate
    \/ BuildMeal
    \/ ReturnSchedule
    \/ Midnight

Spec == Init /\ [][Next]_vars

\* generate_schedule is sequential code: it goes on as long as it has a next
\* statement.  The requests are days with and without room for fillers.
LiveRequests ==
    {UserData(wake, sleep, workout, "lifting", 60, 180, 280, 70, n) :
        wake \in {Time(7, 0)}, sleep \in {Time(23, 0), Time(10, 30)},
        workout \in {NoneTime, Time(17, 0)}, n \in 0..MaxMeals}

InitLive ==
    /\ NoNotifications
    /\ entry = "generate_schedule"
    /\ calc = NoCalc
    /\ user_data \in LiveRequests
    /\ Entry
    /\ today = 0
    /\ call = 1
    /\ first = << >>

FairSpec == InitLive /\ [][Next]_vars /\ WF_vars(Next)

(***************************************************************************)
(* A caller that invokes generate_schedule twice on the same user_data, as  *)
(* app/main.py does for /generate and then /start-notifications.            *)
(***************************************************************************)
TwiceRequests ==
    {UserData(Time(7, 0), Time(23, 0), workout, "lifting", 60, 180, 280, 70, n) :
        workout \in {NoneTime, Time(17, 0)}, n \in 3..4}

InitTwice ==
    /\ NoNotifications
    /\ entry = "generate_schedule"
    /\ calc = NoCalc
    /\ user_data \in TwiceRequests
    /\ Entry
    /\ today = 0
    /\ call = 1
    /\ first = << >>

Reinvoke ==
    /\ pc = "done"
    /\ call = 1
    /\ first' = schedule
    /\ call' = 2
    /\ pc' = "parse"
    /\ user' = << >>
    /\ anchors' = << >>
    /\ meals' = << >>
    /\ needed' = 0
    /\ iter' = 0
    /\ meal_times' = << >>
    /\ violations' = << >>
    /\ raw' = << >>
    /\ macro_allocations' = << >>
    /\ base_date' = 0
    /\ schedule' = << >>
    /\ error' = "None"
    /\ UNCHANGED << notifications, entry, calc, user_data, today >>

NextTwice == Next \/ Reinvoke

SpecTwice == InitTwice /\ [][NextTwice]_vars

(***************************************************************************)
(* A caller that invokes generate_schedule and then                         *)
(* generate_schedule_from_inputs on the UserInputs the first call parsed.   *)
(***************************************************************************)
\* scheduler.py lines 130-137: the function is entered with user given
CallFromInputs ==
    /\ pc = "done"
    /\ call = 1
    /\ first' = schedule
    /\ call' = 2
    /\ entry' = "generate_schedule_from_inputs"
    /\ pc' = "anchors"
    /\ anchors' = << >>
    /\ meals' = << >>
    /\ needed' = 0
    /\ iter' = 0
    /\ meal_times' = << >>
    /\ violations' = << >>
    /\ raw' = << >>
    /\ macro_allocations' = << >>
    /\ base_date' = 0
    /\ schedule' = << >>
    /\ error' = "None"
    /\ UNCHANGED << notifications, calc, user_data, user, today >>

NextFromInputs == Next \/ CallFromInputs

SpecFromInputs == InitTwice /\ [][NextFromInputs]_vars

(***************************************************************************)
(* models.py: the totals of a DaySchedule, over its meals.                  *)
(***************************************************************************)
total_calories(ms) == SumSeq([i \in 1..Len(ms) |-> ms[i].calories])
total_protein(ms)  == SumSeq([i \in 1..Len(ms) |-> ms[i].protein_g])
total_carbs(ms)    == SumSeq([i \in 1..Len(ms) |-> ms[i].carbs_g])
total_fat(ms)      == SumSeq([i \in 1..Len(ms) |-> ms[i].fat_g])

(***************************************************************************)
(* The helpers called directly, as the tests call them: calc holds the      *)
(* arguments, and after the call the results.                               *)
(***************************************************************************)
MaxMinutes == 2880
Seconds == {0, 30}

ClockTimes == {[hour |-> h, minute |-> m, second |-> s] :
                  h \in 0..23, m \in 0..59, s \in Seconds}
MinuteTimes == {Time(h, m) : h \in 0..23, m \in 0..59}
HourTimes == {Time(h, 0) : h \in 0..23}
                 \cup {Time(23, 59), Time(0, 1), Time(11, 59), Time(12, 1)}
AddTimes == {Time(0, 0), Time(7, 45), Time(23, 59),
             [hour |-> 12, minute |-> 30, second |-> 30]}
WakeCalls == {Time(0, 0), Time(7, 0), Time(22, 0), Time(23, 59)}

Call(op, t1, t2, n) ==
    [op |-> op, t1 |-> t1, t2 |-> t2, n |-> n, ms |-> << >>, done |-> FALSE,
     m |-> 0, t |-> NoneTime, u |-> NoneTime, vs |-> << >>]

\* Meal lists handed to validate_meal_schedule, sorted or not: times around
\* the limits of 150 and 300 minutes between meals, of 120 minutes before
\* sleep_time and of 30 minutes before a workout at 17:00.
MaxListed == 3
ListedTimes == {Time(16, 30), Time(16, 31), Time(17, 0), Time(19, 0), Time(21, 0),
                Time(21, 1), Time(21, 30), Time(23, 30), Time(0, 30)}
ListedMeals == UNION {[1..k -> {[time |-> t, meal_type |-> SNACK] : t \in ListedTimes}] :
                         k \in 0..MaxListed}
ListedSleepTimes == {Time(23, 0), Time(0, 30)}
ListedWorkoutTimes == {NoneTime, Time(17, 0)}

\* the calls made: every minute count, every clock time, and pairs of them
CalcInputs ==
    \/ \E n \in -MaxMinutes..MaxMinutes :
          calc = Call("minutes_to_time", NoneTime, NoneTime, n)
    \/ \E t1 \in ClockTimes :
          calc = Call("time_to_minutes", t1, NoneTime, 0)
    \/ \E t1 \in AddTimes, n \in -MaxMinutes..MaxMinutes :
          calc = Call("add_minutes_to_time", t1, NoneTime, n)
    \/ \E t1 \in HourTimes, t2 \in ClockTimes :
          calc = Call("time_difference_minutes", t1, t2, 0)
    \/ \E t1 \in WakeCalls, t2 \in MinuteTimes :
          calc = Call("get_insulin_sensitivity", t1, t2, 0)
    \/ \E t1 \in ListedSleepTimes, t2 \in ListedWorkoutTimes, ms \in ListedMeals :
          calc = [Call("validate_meal_schedule", t1, t2, 0) EXCEPT !.ms = ms]

InitCalc ==
    /\ NoNotifications
    /\ entry = "generate_schedule"
    /\ CalcInputs
    /\ user_data = ExampleRequest
    /\ Entry
    /\ today = 0
    /\ call = 1
    /\ first = << >>

\* meal_timing.py lines 28-32, and back by lines 23-25
CallMinutesToTime ==
    /\ calc.op = "minutes_to_time"
    /\ ~calc.done
    /\ calc' = [calc EXCEPT !.done = TRUE,
                            !.t = minutes_to_time(calc.n),
                            !.m = time_to_minutes(minutes_to_time(calc.n))]
    /\ UNCHANGED << notifications, entry, user_data, pc, locals, today, call, first >>

\* meal_timing.py lines 23-25, and back by lines 28-32
CallTimeToMinutes ==
    /\ calc.op = "time_to_minutes"
    /\ ~calc.done
    /\ calc' = [calc EXCEPT !.done = TRUE,
                            !.m = time_to_minutes(calc.t1),
                            !.t = minutes_to_time(time_to_minutes(calc.t1))]
    /\ UNCHANGED << notifications, entry, user_data, pc, locals, today, call, first >>

\* meal_timing.py lines 35-38, forth by n minutes and back by n minutes
CallAddMinutes ==
    /\ calc.op = "add_minutes_to_time"
    /\ ~calc.done
    /\ calc' = [calc EXCEPT !.done = TRUE,
                            !.t = add_minutes_to_time(calc.t1, calc.n),
                            !.u = add_minutes_to_time(add_minutes_to_time(calc.t1, calc.n),
                                                      -calc.n)]
    /\ UNCHANGED << notifications, entry, user_data, pc, locals, today, call, first >>

\* meal_timing.py lines 41-56, and the difference added to t1
CallTimeDifference ==
    /\ calc.op = "time_difference_minutes"
    /\ ~calc.done
    /\ calc' = [calc EXCEPT !.done = TRUE,
                            !.m = time_difference_minutes(calc.t1, calc.t2),
                            !.t = add_minutes_to_time(calc.t1,
                                      time_difference_minutes(calc.t1, calc.t2))]
    /\ UNCHANGED << notifications, entry, user_data, pc, locals, today, call, first >>

\* circadian.py lines 36-73: m is the score, n the minutes hours_since_waking
\* returned; the clock is read twice
CallInsulinSensitivity ==
    /\ calc.op = "get_insulin_sensitivity"
    /\ ~calc.done
    /\ \E tick \in Ticks :
          /\ calc' = [calc EXCEPT
                         !.done = TRUE,
                         !.n = hours_since_waking(calc.t1, calc.t2, today, today + tick),
                         !.m = get_insulin_sensitivity(calc.t1, calc.t2, today, today + tick)]
          /\ today' = today + tick
    /\ UNCHANGED << notifications, entry, user_data, pc, locals, call, first >>

\* meal_timing.py lines 234-279, for a user who sleeps at t1 and trains at t2
CallValidate ==
    /\ calc.op = "validate_meal_schedule"
    /\ ~calc.done
    /\ LET u == UserData(Time(7, 0), calc.t1, calc.t2, "lifting", 60, 180, 280, 70,
                         Len(calc.ms))
       IN  calc' = [calc EXCEPT !.done = TRUE,
                                !.vs = validate_meal_schedule(calc.ms, u)]
    /\ UNCHANGED << notifications, entry, user_data, pc, locals, today, call, first >>

NextCalc ==
    \/ CallMinutesToTime
    \/ CallTimeToMinutes
    \/ CallAddMinutes
    \/ CallTimeDifference
    \/ CallInsulinSensitivity
    \/ CallValidate

SpecCalc == InitCalc /\ [][NextCalc]_vars

(***************************************************************************)
(* Properties.                                                              *)
(***************************************************************************)
\* distribute_meals has returned
Distributed == pc \in {"validate", "allocate", "raw", "base_date", "build", "done", "raised"}
\* allocate_macros has returned
Allocated == pc \in {"base_date", "build", "done"}
ValidCount == user_data.num_meals \in 3..6

\* minutes elapsed since wake_time, modulo one day
ElapsedSinceWake(t) == (time_to_minutes(t) - time_to_minutes(user_data.wake_time)) % (24 * 60)

TypesOf(ms) == {ms[i].meal_type : i \in 1..Len(ms)}

\* C1 (as claimed): for every request with num_meals in 3..6 the protein_g of
\* the meals returned by allocate_macros and by generate_schedule sum to
\* exactly daily_protein_g.
C1_ProteinSumsToTarget ==
    /\ (Allocated /\ ValidCount) =>
          SumSeq([i \in 1..Len(macro_allocations) |-> macro_allocations[i].protein_g])
              = user_data.daily_protein_g
    /\ (pc = "done" /\ ValidCount) =>
          SumSeq([i \in 1..Len(schedule) |-> schedule[i].protein_g])
              = user_data.daily_protein_g

\* C2: for every request with num_meals in 3..6 and non-negative targets
\* (0 included) the carbs_g of the returned meals sum to exactly
\* daily_carbs_g and the fat_g to exactly daily_fat_g.
C2_CarbsFatSumToTarget ==
    /\ (Allocated /\ ValidCount) =>
          /\ SumSeq([i \in 1..Len(macro_allocations) |-> macro_allocations[i].carbs_g])
                = user_data.daily_carbs_g
          /\ SumSeq([i \in 1..Len(macro_allocations) |-> macro_allocations[i].fat_g])
                = user_data.daily_fat_g
    /\ (pc = "done" /\ ValidCount) =>
          /\ SumSeq([i \in 1..Len(schedule) |-> schedule[i].carbs_g]) = user_data.daily_carbs_g
          /\ SumSeq([i \in 1..Len(schedule) |-> schedule[i].fat_g]) = user_data.daily_fat_g

\* a schedule was returned for a zero carb target (raw sum 0, scale 1) and a
\* positive fat target whose last meal absorbed rounding drift
C2_Witness ==
    /\ pc = "done"
    /\ ValidCount
    /\ user_data.daily_carbs_g = 0
    /\ user_data.daily_fat_g > 0
    /\ LET n == Len(schedule)
           raw_fat == SumSeq([k \in 1..n |-> raw[k].fat])
       IN  /\ n >= 3
           /\ schedule[n].fat_g # Round(raw[n].fat * user_data.daily_fat_g, raw_fat)

\* C3 (as claimed): for num_meals in 3..6 distribute_meals returns exactly
\* num_meals meals and generate_schedule a schedule of exactly num_meals meals.
C3_ExactMealCount ==
    /\ (Distributed /\ ValidCount) => Len(meal_times) = user_data.num_meals
    /\ (pc = "done" /\ ValidCount) => Len(schedule) = user_data.num_meals

\* C3 (amended): for num_meals in 3..6 distribute_meals returns exactly
\* num_meals meals when there are at least num_meals anchors, and otherwise at
\* least as many meals as anchors and at most num_meals; generate_schedule
\* returns one ScheduledMeal per meal distribute_meals returned.
C3_MealCountBounded ==
    /\ (Distributed /\ ValidCount) =>
          IF Len(anchors) >= user_data.num_meals
          THEN Len(meal_times) = user_data.num_meals
          ELSE Len(anchors) <= Len(meal_times) /\ Len(meal_times) <= user_data.num_meals
    /\ (pc = "done" /\ ValidCount) => Len(schedule) = Len(meal_times)

\* a schedule was returned with fewer meals than requested
C3_Witness ==
    /\ pc = "done"
    /\ ValidCount
    /\ Len(schedule) < user_data.num_meals
    /\ Len(schedule) > Len(anchors)

\* C4 (as claimed): the meals returned by distribute_meals are strictly
\* increasing in minutes elapsed since wake_time (modulo 1440).
C4_StrictlyIncreasingSinceWake ==
    (Distributed /\ ValidCount) =>
        \A i \in 1..Len(meal_times) : \A j \in 1..Len(meal_times) :
            i < j => ElapsedSinceWake(meal_times[i].time) < ElapsedSinceWake(meal_times[j].time)

\* C5: the list returned by distribute_meals is in non-decreasing order of
\* minutes since midnight on every path, and the ScheduledMeals are numbered
\* 1..n in that order.
C5_SortedByClockTime ==
    /\ Distributed =>
          \A i \in 1..Len(meal_times) : \A j \in 1..Len(meal_times) :
              i < j => time_to_minutes(meal_times[i].time) <= time_to_minutes(meal_times[j].time)
    /\ pc \in {"build", "done"} =>
          \A i \in 1..Len(schedule) :
              /\ schedule[i].meal_number = i
              /\ schedule[i].time.time = meal_times[i].time
              /\ schedule[i].meal_type = meal_times[i].meal_type

\* a schedule with fillers was returned for a waking day that wraps past
\* midnight, numbered in clock order
C5_Witness ==
    /\ pc = "done"
    /\ needed > 0
    /\ Len(schedule) > Len(anchors)
    /\ time_to_minutes(user_data.sleep_time) < time_to_minutes(user_data.wake_time)
    /\ schedule[Len(schedule)].meal_number = Len(schedule)

\* C6 (as claimed): a request whose num_meals is outside 3..6 is rejected
\* before anchors are calculated, meals distributed or macros allocated, and
\* no schedule is built for it.
C6_BadCountRejectedEarly ==
    ~ValidCount =>
        /\ pc \in {"parse", "raised"}
        /\ anchors = << >>
        /\ meal_times = << >>
        /\ raw = << >>
        /\ schedule = << >>
        /\ error # "ZeroDivisionError"

\* the meals of a schedule without the date of their time
TimesOfDay(sched) ==
    [i \in 1..Len(sched) |->
        [meal_number |-> sched[i].meal_number, time |-> sched[i].time.time,
         calories |-> sched[i].calories, protein_g |-> sched[i].protein_g,
         carbs_g |-> sched[i].carbs_g, fat_g |-> sched[i].fat_g,
         reasoning |-> sched[i].reasoning, meal_type |-> sched[i].meal_type]]

\* C7 (as claimed): a second invocation on the same user_data returns the
\* same meals as the first, up to the date of their times, whenever the
\* clock is read.
C7_SecondCallSameSchedule ==
    (call = 2 /\ pc = "done") => TimesOfDay(schedule) = TimesOfDay(first)

\* C8: the anchors are first_meal 45 min after wake (BREAKFAST, 3), last_meal
\* 165 min before sleep (DINNER, 3) and, with a workout, pre_workout 105 min
\* before its start (PRE_WORKOUT, 4) and post_workout 75 min after its end
\* (POST_WORKOUT, 5), as measured by time_difference_minutes.
C8_AnchorOffsets ==
    pc # "parse" /\ pc # "anchors" =>
        /\ Len(anchors) = IF U.workout_time = NoneTime THEN 2 ELSE 4
        /\ anchors[1].key = "first_meal"
        /\ time_difference_minutes(U.wake_time, anchors[1].time) = 45
        /\ anchors[1].meal_type = BREAKFAST /\ anchors[1].priority = 3
        /\ anchors[2].key = "last_meal"
        /\ time_difference_minutes(anchors[2].time, U.sleep_time) = 165
        /\ anchors[2].meal_type = DINNER /\ anchors[2].priority = 3
        /\ U.workout_time # NoneTime =>
              /\ anchors[3].key = "pre_workout"
              /\ time_difference_minutes(anchors[3].time, U.workout_time) = 105
              /\ anchors[3].meal_type = PRE_WORKOUT /\ anchors[3].priority = 4
              /\ anchors[4].key = "post_workout"
              /\ time_difference_minutes(
                     add_minutes_to_time(U.workout_time, U.workout_duration_min),
                     anchors[4].time) = 75
              /\ anchors[4].meal_type = POST_WORKOUT /\ anchors[4].priority = 5

\* anchors were calculated for a workout whose end and post-workout meal fall
\* on either side of midnight
C8_Witness ==
    /\ pc = "distribute"
    /\ U.workout_time # NoneTime
    /\ time_to_minutes(anchors[4].time)
          < time_to_minutes(add_minutes_to_time(U.workout_time, U.workout_duration_min))

\* C9: when num_meals (a natural number) is smaller than the number of
\* anchors, distribute_meals returns exactly num_meals of the anchors, no
\* dropped anchor has a higher priority than a kept one, POST_WORKOUT is kept
\* when a workout is set and num_meals >= 1, and when one of BREAKFAST and
\* DINNER is kept it is the one that comes first in the time-sorted anchors.
C9_PriorityTrimming ==
    (Distributed /\ U.num_meals < Len(anchors)) =>
        LET kept == {a \in 1..Len(anchors) :
                        \E i \in 1..Len(meal_times) :
                            /\ meal_times[i].time = anchors[a].time
                            /\ meal_times[i].meal_type = anchors[a].meal_type}
            dropped == (1..Len(anchors)) \ kept
            sorted == SeedMeals(anchors)
            pos(ty) == CHOOSE i \in 1..Len(sorted) : sorted[i].meal_type = ty
        IN  /\ Len(meal_times) = U.num_meals
            /\ Cardinality(kept) = U.num_meals
            /\ \A d \in dropped : \A k \in kept : anchors[d].priority <= anchors[k].priority
            /\ (U.workout_time # NoneTime /\ U.num_meals >= 1) =>
                  POST_WORKOUT \in TypesOf(meal_times)
            /\ (BREAKFAST \in TypesOf(meal_times) /\ DINNER \notin TypesOf(meal_times)) =>
                  pos(BREAKFAST) < pos(DINNER)
            /\ (DINNER \in TypesOf(meal_times) /\ BREAKFAST \notin TypesOf(meal_times)) =>
                  pos(DINNER) < pos(BREAKFAST)

\* three of four anchors were kept and DINNER, earlier on the clock than
\* BREAKFAST, was preferred to it
C9_Witness ==
    /\ pc = "validate"
    /\ U.num_meals = 3
    /\ Len(anchors) = 4
    /\ TypesOf(meal_times) = {PRE_WORKOUT, POST_WORKOUT, DINNER}

\* C10: when workout_time is None, whatever workout_type is, there is no
\* pre_workout or post_workout anchor and no meal of the schedule has type
\* PRE_WORKOUT or POST_WORKOUT.
C10_RestDayNoWorkoutMeals ==
    user_data.workout_time = NoneTime =>
        /\ \A a \in 1..Len(anchors) : anchors[a].key \notin {"pre_workout", "post_workout"}
        /\ TypesOf(anchors) \cap {PRE_WORKOUT, POST_WORKOUT} = {}
        /\ TypesOf(meal_times) \cap {PRE_WORKOUT, POST_WORKOUT} = {}
        /\ TypesOf(schedule) \cap {PRE_WORKOUT, POST_WORKOUT} = {}

\* a rest-day schedule with fillers was returned although workout_type is set
C10_Witness ==
    /\ pc = "done"
    /\ ValidCount
    /\ user_data.workout_time = NoneTime
    /\ user_data.workout_type = "lifting"
    /\ Len(schedule) > Len(anchors)

\* the meal time t is more than 0 and less than 120 minutes before sleep_time
NearSleep(t) ==
    LET mins_to_sleep == time_difference_minutes(t, user_data.sleep_time)
    IN  0 < mins_to_sleep /\ mins_to_sleep < 120

PostWorkoutInWindow ==
    {i \in 1..Len(schedule) :
        /\ schedule[i].meal_type = POST_WORKOUT
        /\ time_to_minutes(schedule[i].time.time) >= 18 * 60
        /\ time_to_minutes(schedule[i].time.time) <= 20 * 60}

ExampleTotals ==
    /\ SumSeq([i \in 1..Len(schedule) |-> schedule[i].protein_g]) = 180
    /\ SumSeq([i \in 1..Len(schedule) |-> schedule[i].carbs_g]) = 280
    /\ SumSeq([i \in 1..Len(schedule) |-> schedule[i].fat_g]) = 70

\* C12 as stated: the example day has 4 meals, among them a POST_WORKOUT
\* meal between 18:00 and 20:00 with 45 < protein_g <= 50, and the totals
\* are exactly 180 / 280 / 70.
C12_ExamplePostWorkoutCapped ==
    (pc = "done" /\ user_data = ExampleRequest) =>
        /\ Len(schedule) = 4
        /\ \E i \in PostWorkoutInWindow :
               45 < schedule[i].protein_g /\ schedule[i].protein_g <= 50
        /\ ExampleTotals

\* C12: the example day has 4 meals, exactly one of them POST_WORKOUT, at
\* 19:15; its raw protein is the capped 50 g, and after normalisation to
\* the daily target its protein_g is 51; the totals are exactly 180 / 280 / 70.
C12_ExamplePostWorkoutNormalised ==
    (pc = "done" /\ user_data = ExampleRequest) =>
        /\ Len(schedule) = 4
        /\ Cardinality({i \in 1..4 : schedule[i].meal_type = POST_WORKOUT}) = 1
        /\ \A i \in 1..4 :
               schedule[i].meal_type = POST_WORKOUT =>
                   /\ i \in PostWorkoutInWindow
                   /\ schedule[i].time.time = Time(19, 15)
                   /\ raw[i].protein = 50 * 4
                   /\ schedule[i].protein_g = 51
        /\ ExampleTotals

\* the example day's schedule was returned, with its post-workout meal
C12_Witness ==
    /\ pc = "done"
    /\ user_data = ExampleRequest
    /\ PostWorkoutInWindow # {}

\* t is a value datetime.time accepts
ValidTime(t) == t.hour \in 0..23 /\ t.minute \in 0..59 /\ t.second \in 0..59

\* t with the part below the minute dropped
WholeMinutes(t) == [t EXCEPT !.second = 0]

\* C13 as stated: minutes_to_time(m) is a valid time whose minutes are
\* m mod 1440; minutes_to_time(time_to_minutes(t)) = t for every time t;
\* adding d minutes and then -d minutes gives t back.
C13_RoundTripsExact ==
    calc.done =>
        /\ calc.op = "minutes_to_time" =>
               ValidTime(calc.t) /\ calc.m = calc.n % 1440
        /\ calc.op = "time_to_minutes" => calc.t = calc.t1
        /\ calc.op = "add_minutes_to_time" => calc.u = calc.t1

\* C13: minutes_to_time(m) is a valid time whose minutes are m mod 1440, for
\* negative m and m >= 1440 too; minutes_to_time(time_to_minutes(t)) and
\* add_minutes_to_time(add_minutes_to_time(t, d), -d) are t with its seconds
\* dropped, so they are t exactly when t is a whole-minute time.
C13_RoundTripsToWholeMinutes ==
    calc.done =>
        /\ calc.op = "minutes_to_time" =>
               ValidTime(calc.t) /\ calc.m = calc.n % 1440
        /\ calc.op = "time_to_minutes" =>
               /\ calc.t = WholeMinutes(calc.t1)
               /\ (calc.t = calc.t1) <=> (calc.t1.second = 0)
        /\ calc.op = "add_minutes_to_time" =>
               /\ ValidTime(calc.t)
               /\ calc.u = WholeMinutes(calc.t1)
               /\ (calc.u = calc.t1) <=> (calc.t1.second = 0)

\* a time with seconds was converted to minutes and back
C13_Witness ==
    /\ calc.done
    /\ calc.op = "time_to_minutes"
    /\ calc.t1.second # 0
    /\ calc.t = WholeMinutes(calc.t1)

\* m2 - m1 for the two arguments of the call
RawDifference == time_to_minutes(calc.t2) - time_to_minutes(calc.t1)

DifferenceValue ==
    /\ calc.m = (IF RawDifference >= -720 THEN RawDifference ELSE RawDifference + 1440)
    /\ calc.m \in -720..1439
    /\ (calc.m - RawDifference) % 1440 = 0

\* C14 as stated: time_difference_minutes(t1, t2) is m2 - m1 when that is at
\* least -720 and m2 - m1 + 1440 otherwise, lies in [-720, 1439], is
\* congruent to m2 - m1 modulo 1440, and added to t1 gives t2.
C14_DifferenceReachesT2 ==
    (calc.done /\ calc.op = "time_difference_minutes") =>
        DifferenceValue /\ calc.t = calc.t2

\* C14: time_difference_minutes(t1, t2) is m2 - m1 when that is at least
\* -720 and m2 - m1 + 1440 otherwise, lies in [-720, 1439], is congruent to
\* m2 - m1 modulo 1440, and added to t1 gives t2 with its seconds dropped,
\* which is t2 exactly when t2 is a whole-minute time.
C14_DifferenceReachesMinuteOfT2 ==
    (calc.done /\ calc.op = "time_difference_minutes") =>
        /\ DifferenceValue
        /\ calc.t = WholeMinutes(calc.t2)
        /\ (calc.t = calc.t2) <=> (calc.t2.second = 0)

\* a difference across midnight to a time with seconds was computed
C14_Witness ==
    /\ calc.done
    /\ calc.op = "time_difference_minutes"
    /\ RawDifference < -720
    /\ calc.m = RawDifference + 1440
    /\ calc.t2.second # 0

\* minutes from the wake time of the call to its meal time, modulo one day
ElapsedInCall == (time_to_minutes(calc.t2) - time_to_minutes(calc.t1)) % (24 * 60)

\* the documented step function, in tenths
SensitivityStep(mins) ==
    IF mins < 2 * 60 THEN 9
    ELSE IF mins < 6 * 60 THEN 10
    ELSE IF mins < 10 * 60 THEN 7
    ELSE IF mins < 14 * 60 THEN 5
    ELSE 3

\* C15: get_insulin_sensitivity(wake, meal) is the step function of the
\* minutes elapsed since wake modulo 24 h: the elapsed time it works from is
\* in [0, 24 h), never negative, the score is 0.9 / 1.0 / 0.7 / 0.5 / 0.3 on
\* [0,2h) / [2h,6h) / [6h,10h) / [10h,14h) / [14h,24h), and
\* get_insulin_sensitivity(wake, wake) is 0.9.
C15_SensitivityIsStepFunction ==
    (calc.done /\ calc.op = "get_insulin_sensitivity") =>
        /\ calc.n >= 0
        /\ calc.n < 24 * 60
        /\ calc.n = ElapsedInCall
        /\ calc.m = SensitivityStep(ElapsedInCall)
        /\ (calc.t1 = calc.t2) => calc.m = 9

\* C16: every meal of a returned schedule has calories = 4 * protein_g +
\* 4 * carbs_g + 9 * fat_g, computed from its final macros, and the
\* schedule's total_calories is 4 * total_protein + 4 * total_carbs +
\* 9 * total_fat.
C16_CaloriesDerivedFromMacros ==
    (pc = "done") =>
        /\ \A i \in 1..Len(schedule) :
               schedule[i].calories = 4 * schedule[i].protein_g + 4 * schedule[i].carbs_g
                                          + 9 * schedule[i].fat_g
        /\ total_calories(schedule) = 4 * total_protein(schedule) + 4 * total_carbs(schedule)
                                          + 9 * total_fat(schedule)

\* a schedule was returned whose meals carry fat and whose last meal took
\* the remainder
C16_Witness ==
    /\ pc = "done"
    /\ Len(schedule) >= 3
    /\ total_fat(schedule) > 0
    /\ total_calories(schedule) > 0
    /\ \A i \in 1..Len(schedule) : schedule[i].fat_g > 0

\* C17: validation does not block and has no effect: generate_schedule
\* raises nothing once distribute_meals has returned at least one meal,
\* whatever violations were found, and generate_schedule_from_inputs, which
\* skips validation, returns on the same UserInputs the same meals (times of
\* day, types, macros, reasoning, numbering).
C17_SameMealsWithoutValidation ==
    /\ (Distributed /\ Len(meal_times) >= 1) => pc # "raised"
    /\ (call = 2 /\ entry = "generate_schedule_from_inputs" /\ pc = "done") =>
           TimesOfDay(schedule) = TimesOfDay(first)

\* the violations of one kind in the list a call returned: how many, and
\* the meals they name
Reported(kind) == {k \in 1..Len(calc.vs) : calc.vs[k].kind = kind}
ReportedMeals(kind) == {calc.vs[k].meal : k \in Reported(kind)}

\* the gap after meal i of the list handed to the call
ListedGap(i) == time_difference_minutes(calc.ms[i].time, calc.ms[i + 1].time)

PairsTooClose == {i \in 1..(Len(calc.ms) - 1) : ListedGap(i) < 150}
PairsTooLarge == {i \in 1..(Len(calc.ms) - 1) : ListedGap(i) > 300}
MealsNearSleep ==
    {i \in 1..Len(calc.ms) :
        /\ time_difference_minutes(calc.ms[i].time, calc.t1) > 0
        /\ time_difference_minutes(calc.ms[i].time, calc.t1) < 120}
MealsNearWorkout ==
    {i \in 1..Len(calc.ms) :
        /\ calc.t2 # NoneTime
        /\ time_difference_minutes(calc.ms[i].time, calc.t2) > 0
        /\ time_difference_minutes(calc.ms[i].time, calc.t2) < 30}

\* C18: validate_meal_schedule reports one violation for each consecutive
\* pair whose gap is below 150 minutes and one for each pair whose gap is
\* above 300, one for each meal within 120 minutes before sleep_time and,
\* with a workout set, one for each meal within 30 minutes before its
\* start; nothing else is reported, so the list is empty exactly when none
\* of these holds.
C18_OneViolationPerBrokenRule ==
    (calc.done /\ calc.op = "validate_meal_schedule") =>
        /\ ReportedMeals("too_close") = PairsTooClose
        /\ Cardinality(Reported("too_close")) = Cardinality(PairsTooClose)
        /\ ReportedMeals("too_large") = PairsTooLarge
        /\ Cardinality(Reported("too_large")) = Cardinality(PairsTooLarge)
        /\ ReportedMeals("near_sleep") = MealsNearSleep
        /\ Cardinality(Reported("near_sleep")) = Cardinality(MealsNearSleep)
        /\ ReportedMeals("near_workout") = MealsNearWorkout
        /\ Cardinality(Reported("near_workout")) = Cardinality(MealsNearWorkout)
        /\ Len(calc.vs) = Cardinality(PairsTooClose) + Cardinality(PairsTooLarge)
                              + Cardinality(MealsNearSleep) + Cardinality(MealsNearWorkout)
        /\ (calc.vs = << >>) <=>
               (PairsTooClose \cup PairsTooLarge \cup MealsNearSleep \cup MealsNearWorkout = {})

\* a call reported a violation of each of the four kinds at once
C18_Witness ==
    /\ calc.done
    /\ calc.op = "validate_meal_schedule"
    /\ Reported("too_close") # {}
    /\ Reported("too_large") # {}
    /\ Reported("near_sleep") # {}
    /\ Reported("near_workout") # {}

\* the phrases of generate_meal_reasoning in the order the code appends
\* them: time and insulin, workout, pre-sleep
PhraseOrder ==
    << "Post-wake cortisol clearing, high insulin sensitivity",
       "Hit leucine threshold to kickstart MPS",
       "Peak circadian insulin sensitivity window",
       "Optimal time for carbohydrate intake",
       "Good insulin sensitivity",
       "Lower insulin sensitivity, carbs minimized",
       "min pre-workout",
       "Low fat for fast gastric emptying",
       "Carbs to top off muscle glycogen",
       "MPS peak window (1-4hr post-workout)",
       "Glycogen synthase elevated",
       "Largest protein bolus for maximum MPS",
       "Pre-sleep protein supports overnight MPS",
       "Reduced carbs to preserve sleep quality" >>

\* the place of a phrase in that order, 0 for any other text
PhraseIndex(text) ==
    IF \E k \in 1..Len(PhraseOrder) : PhraseOrder[k] = text
    THEN CHOOSE k \in 1..Len(PhraseOrder) : PhraseOrder[k] = text
    ELSE 0

\* C19: the reasoning of every meal of a schedule is a non-empty text of at
\* most 3 phrases, either the fallback 'Balanced meal timing' alone or
\* phrases taken in the fixed order time/insulin, workout, pre-sleep; the
\* text of every POST_WORKOUT meal contains 'MPS peak window (1-4hr
\* post-workout)', also when it was cut to three phrases.
C19_ReasoningShape ==
    \A i \in 1..Len(schedule) :
        LET r == schedule[i].reasoning
        IN  /\ Len(r) \in 1..3
            /\ \/ r = << Phrase("Balanced meal timing") >>
               \/ /\ \A k \in 1..Len(r) : PhraseIndex(r[k].text) > 0
                  /\ \A k \in 1..(Len(r) - 1) :
                         PhraseIndex(r[k].text) < PhraseIndex(r[k + 1].text)
            /\ schedule[i].meal_type = POST_WORKOUT =>
                   \E k \in 1..Len(r) : r[k].text = "MPS peak window (1-4hr post-workout)"

\* a POST_WORKOUT meal whose text was cut right after the MPS phrase
C19_Witness ==
    /\ pc = "done"
    /\ \E i \in 1..Len(schedule) :
          /\ schedule[i].meal_type = POST_WORKOUT
          /\ Len(schedule[i].reasoning) = 3
          /\ schedule[i].reasoning[3].text = "MPS peak window (1-4hr post-workout)"

\* The gaps of the working list, in order: gap k runs from GapStart(k) to
\* GapEnd(k); the first starts at the window start, the last ends at the
\* window end.
GapStart(k) == IF k = 1 THEN get_available_window(U).first_possible ELSE meals[k - 1].time
GapEnd(k) == IF k = Len(meals) + 1 THEN get_available_window(U).last_possible ELSE meals[k].time
GapLength(k) == time_difference_minutes(GapStart(k), GapEnd(k))

\* the first of the largest gaps, when it is at least 300 minutes long
BisectedGaps ==
    {k \in 1..(Len(meals) + 1) :
        /\ GapLength(k) >= 300
        /\ \A j \in 1..(Len(meals) + 1) : GapLength(j) <= GapLength(k)
        /\ \A j \in 1..(k - 1) : GapLength(j) < GapLength(k)}

\* C20: an iteration of the insertion loop inserts nothing when no gap is at
\* least 300 minutes long; otherwise it puts one new meal into the first of
\* the largest gaps (window start to first meal, between consecutive meals,
\* last meal to window end), at the start of the gap plus gap // 2, and the
\* new meal is at least 150 minutes from both ends of that gap.
C20_FillerBisectsLargestGap ==
    [][InsertIteration =>
          IF BisectedGaps = {}
          THEN meals' = meals
          ELSE \E k \in BisectedGaps :
                  /\ Len(meals') = Len(meals) + 1
                  /\ SubSeq(meals', 1, k - 1) = SubSeq(meals, 1, k - 1)
                  /\ SubSeq(meals', k + 1, Len(meals')) = SubSeq(meals, k, Len(meals))
                  /\ meals'[k].time = add_minutes_to_time(GapStart(k), GapLength(k) \div 2)
                  /\ time_difference_minutes(GapStart(k), meals'[k].time) >= 150
                  /\ time_difference_minutes(meals'[k].time, GapEnd(k)) >= 150]_vars

\* two fillers were inserted, and one of them halves a gap that was as long
\* as the gap after it
C20_Witness ==
    /\ pc = "insert"
    /\ iter = 2
    /\ Len(meals) = Len(anchors) + 2
    /\ \E j \in 2..(Len(meals) - 2) :
          LET gap == time_difference_minutes(meals[j - 1].time, meals[j + 1].time)
          IN  /\ meals[j].priority = 1
              /\ gap >= 300
              /\ gap = time_difference_minutes(meals[j + 1].time, meals[j + 2].time)
              /\ meals[j].time = add_minutes_to_time(meals[j - 1].time, gap \div 2)

\* C21: distribute_meals terminates.  The insertion loop is entered with
\* needed = num_meals - |anchors|, each iteration counts once and inserts at
\* most one meal, an iteration without an eligible gap inserts nothing and
\* raises nothing, the loop is left after exactly needed iterations, and the
\* result has at most num_meals meals.
C21_DistributeTerminates ==
    /\ [](pc = "insert" =>
             /\ needed = U.num_meals - Len(anchors)
             /\ needed > 0
             /\ iter <= needed
             /\ error = "None")
    /\ [][InsertIteration =>
             /\ iter' = iter + 1
             /\ Len(meals') \in {Len(meals), Len(meals) + 1}
             /\ (ChosenGap(U, meals) = 0) => meals' = meals]_vars
    /\ [][DistributeReturn => iter = needed]_vars
    /\ []((Distributed /\ call = 1) => Len(meal_times) <= user_data.num_meals)
    /\ <>Distributed

\* distribute_meals returned after an iteration that found no eligible gap
C21_Witness ==
    /\ pc = "validate"
    /\ needed > 0
    /\ iter = needed
    /\ Len(meal_times) < Len(anchors) + needed

\* C22: every filler meal that distribute_meals inserted (priority 1) lies
\* inside the eating window of the waking day: its time elapsed since
\* wake_time, modulo 1440, is at least 30 minutes and at most the elapsed
\* time of sleep_time - 120 minutes.
C22_FillersInsideWindow ==
    (Distributed /\ ValidCount) =>
        \A i \in 1..Len(meals) :
            meals[i].priority = 1 =>
                /\ ElapsedSinceWake(meals[i].time) >= 30
                /\ ElapsedSinceWake(meals[i].time)
                      <= ElapsedSinceWake(add_minutes_to_time(user_data.sleep_time, -120))

\* the meal is more than 0 and at most 180 minutes before sleep_time
PreSleep(t) ==
    /\ time_difference_minutes(t, U.sleep_time) > 0
    /\ time_difference_minutes(t, U.sleep_time) <= 180

\* C23: the raw carbs of a PRE_WORKOUT meal that is not within 3 hours
\* before sleep are base_carbs * (insulin sensitivity / 0.7) * 1.2, the
\* sensitivity being the one of the meal time, whichever dates the clock
\* reads return.  In units of 1/(35 n) g that is daily_carbs_g * 6 times the
\* score in tenths.
C23_PreWorkoutCarbsOnTopOfWeighting ==
    \A i \in 1..Len(raw) :
        (raw[i].meal_type = PRE_WORKOUT /\ ~PreSleep(meal_times[i].time)) =>
            \E tick \in {0, 1} :
                raw[i].carbs = U.daily_carbs_g * 6
                    * get_insulin_sensitivity(U.wake_time, meal_times[i].time, 0, tick)

\* C24: a meal more than 0 and at most 180 minutes before sleep_time has,
\* whatever its type and insulin sensitivity, raw carbs of exactly
\* 0.6 * base_carbs and raw protein of at most 35 g; a meal outside that
\* interval has the carbs and the protein of the earlier steps, unreduced.
\* (Raw protein is in units of 1/n g, raw carbs in units of 1/(35 n) g.)
C24_PreSleepAdjustment ==
    \A i \in 1..Len(raw) :
        LET n == Len(meal_times)
            t == meal_times[i].time
        IN  IF PreSleep(t)
            THEN /\ raw[i].carbs * 10 = 6 * U.daily_carbs_g * CarbUnit
                 /\ raw[i].protein <= 35 * n
            ELSE /\ IF raw[i].meal_type = PRE_WORKOUT
                    THEN raw[i].carbs * 10 = 12 * U.daily_carbs_g * CarbUnit
                    ELSE \E tick \in {0, 1} :
                            raw[i].carbs * 7 = U.daily_carbs_g * CarbUnit
                                * get_insulin_sensitivity(U.wake_time, t, 0, tick)
                 /\ raw[i].protein =
                       IF raw[i].meal_type = POST_WORKOUT /\ U.workout_type # "None"
                       THEN n * get_post_workout_protein_boost(U.daily_protein_g \div n,
                                                               U.workout_type)
                       ELSE U.daily_protein_g

\* the pre-sleep reduction replaced the carbs of a PRE_WORKOUT meal
C24_Witness ==
    /\ Len(raw) > 0
    /\ U.daily_carbs_g > 0
    /\ \E i \in 1..Len(raw) :
          /\ raw[i].meal_type = PRE_WORKOUT
          /\ PreSleep(meal_times[i].time)
          /\ raw[i].carbs * 10 = 6 * U.daily_carbs_g * CarbUnit
          /\ raw[i].protein <= 35 * Len(meal_times)

\* C25: in a returned schedule of a request with a workout time and a
\* workout type (num_meals 3..6) the POST_WORKOUT meal has at least the
\* protein_g of every other meal.
C25_PostWorkoutLargestProtein ==
    (pc = "done" /\ ValidCount /\ user_data.workout_time # NoneTime
                 /\ user_data.workout_type # "None") =>
        \A i \in 1..Len(schedule) :
            schedule[i].meal_type = POST_WORKOUT =>
                \A j \in 1..Len(schedule) : schedule[i].protein_g >= schedule[j].protein_g

C27_NoNegativeMacros ==
    (Allocated /\ ValidCount) =>
        \A i \in 1..Len(macro_allocations) :
            /\ macro_allocations[i].carbs_g >= 0
            /\ macro_allocations[i].fat_g >= 0

\* how many meals of ms have the type ty
CountOfType(ms, ty) == Cardinality({i \in 1..Len(ms) : ms[i].meal_type = ty})

\* C28: in every list distribute_meals returns each of BREAKFAST, LUNCH,
\* DINNER, PRE_WORKOUT and POST_WORKOUT appears at most once, every filler
\* (a meal inserted by the loop, priority 1) is a LUNCH or a SNACK, and the
\* breakfast and dinner anchors are in the list whenever it has a filler.
C28_MealTypeUniqueness ==
    Distributed =>
        /\ \A ty \in {BREAKFAST, LUNCH, DINNER, PRE_WORKOUT, POST_WORKOUT} :
               CountOfType(meal_times, ty) <= 1
        /\ \A i \in 1..Len(meals) :
               meals[i].priority = 1 =>
                   /\ meals[i].meal_type \in {LUNCH, SNACK}
                   /\ CountOfType(meal_times, BREAKFAST) = 1
                   /\ CountOfType(meal_times, DINNER) = 1

\* a returned list with a LUNCH filler and a repeated SNACK
C28_Witness ==
    /\ Distributed
    /\ CountOfType(meal_times, SNACK) >= 2
    /\ \E i \in 1..Len(meals) : meals[i].priority = 1 /\ meals[i].meal_type = LUNCH

\* distribute_meals has returned fewer meals than num_meals
Shortfall == Distributed /\ pc # "raised" /\ Len(meal_times) < user_data.num_meals

\* C29: whenever distribute_meals returns fewer than num_meals meals, the
\* returned, time-sorted list has no gap of at least 300 minutes among window
\* start -> first meal, consecutive meals and last meal -> window end, as
\* time_difference_minutes measures them.
C29_ShortfallOnlyWithoutRoom ==
    Shortfall => \A k \in 1..(Len(meals) + 1) : GapLength(k) < 300

(***************************************************************************)
(* notifier.py: ScheduledNotifier.schedule_meals and app/main.py:           *)
(* start_notifications.  The requests of the Flask server run in threads,   *)
(* so the calls of schedule_meals interleave statement by statement.  The   *)
(* registry is the job list of the schedule library's default scheduler:    *)
(* schedule.clear() empties it, every().day.at(t).do(f, meal=m) appends a   *)
(* job.                                                                     *)
(***************************************************************************)
\* the state of the engine, which the notifier leaves alone
engine == << entry, calc, user_data, pc, user, anchors, meals, needed, iter, meal_times,
             violations, raw, macro_allocations, base_date, schedule, error, today, call, first >>

\* models.py lines 79-81: strftime("%H:%M") keeps the hour and the minute
time_24h(meal) == << meal.time.hour, meal.time.minute >>

\* The DaySchedule.meals handed to schedule_meals: up to MaxScheduled meals,
\* numbered from 1, at the breakfast and dinner times of the example day.
NotifiedTimes == {Time(7, 45), Time(20, 15)}
DaySchedules ==
    UNION {{[i \in 1..k |-> [meal_number |-> i, time |-> f[i]]] : f \in [1..k -> NotifiedTimes]} :
              k \in 0..MaxScheduled}

\* notifier.py lines 161-164: the job of one meal, bound to the instance
Job(n, meal) == [at |-> time_24h(meal), instance |-> n, meal |-> meal]

\* app/main.py lines 111-119: a request creates a new instance, stores it in
\* the global and calls schedule_meals on it
start_notifications(n) ==
    /\ ~notifier[n].constructed
    /\ \A k \in 1..(n - 1) : notifier[k].constructed
    /\ \E ds \in DaySchedules :
          notifier' = [notifier EXCEPT ![n] = [NewInstance EXCEPT !.pc = "clear",
                                                                 !.day_schedule = ds]]
    /\ scheduled_notifier' = n
    /\ UNCHANGED << engine, registry, last_scheduled >>

\* notifier.py line 149: schedule_meals is called again on an instance
CallScheduleMeals(n) ==
    /\ notifier[n].constructed
    /\ notifier[n].pc = "idle"
    /\ \E ds \in DaySchedules :
          notifier' = [notifier EXCEPT ![n].pc = "clear", ![n].day_schedule = ds]
    /\ UNCHANGED << engine, registry, scheduled_notifier, last_scheduled >>

\* notifier.py line 157: schedule.clear() removes every job of the process
ClearJobs(n) ==
    /\ notifier[n].pc = "clear"
    /\ registry' = << >>
    /\ notifier' = [notifier EXCEPT ![n].pc = "copy"]
    /\ UNCHANGED << engine, scheduled_notifier, last_scheduled >>

\* notifier.py line 158
CopyMeals(n) ==
    /\ notifier[n].pc = "copy"
    /\ notifier' = [notifier EXCEPT ![n]._scheduled_meals = notifier[n].day_schedule,
                                     ![n].pc = "jobs", ![n].i = 0]
    /\ UNCHANGED << engine, registry, scheduled_notifier, last_scheduled >>

\* notifier.py lines 160-164: one iteration of the loop
AddJob(n) ==
    /\ notifier[n].pc = "jobs"
    /\ notifier[n].i < Len(notifier[n].day_schedule)
    /\ registry' = Append(registry, Job(n, notifier[n].day_schedule[notifier[n].i + 1]))
    /\ notifier' = [notifier EXCEPT ![n].i = notifier[n].i + 1]
    /\ UNCHANGED << engine, scheduled_notifier, last_scheduled >>

\* notifier.py line 166: the loop is over and schedule_meals returns
ReturnScheduleMeals(n) ==
    /\ notifier[n].pc = "jobs"
    /\ notifier[n].i = Len(notifier[n].day_schedule)
    /\ notifier' = [notifier EXCEPT ![n].pc = "idle"]
    /\ last_scheduled' = notifier[n].day_schedule
    /\ UNCHANGED << engine, registry, scheduled_notifier >>

InitNotify ==
    /\ NoNotifications
    /\ entry = "generate_schedule"
    /\ calc = NoCalc
    /\ user_data = ExampleRequest
    /\ Entry
    /\ today = 0
    /\ call = 1
    /\ first = << >>

NextNotify ==
    \E n \in Instances :
        \/ start_notifications(n)
        \/ CallScheduleMeals(n)
        \/ ClearJobs(n)
        \/ CopyMeals(n)
        \/ AddJob(n)
        \/ ReturnScheduleMeals(n)

SpecNotify == InitNotify /\ [][NextNotify]_vars

\* no schedule_meals call is under way
NoCallUnderWay == \A n \in Instances : notifier[n].pc = "idle"

\* a sequence of meals as a bag
BagOfMeals(ms) == [m \in {ms[i] : i \in 1..Len(ms)} |-> Cardinality({i \in 1..Len(ms) : ms[i] = m})]

\* the meals of the registered jobs, of all instances and of instance n
RegisteredMeals == [i \in 1..Len(registry) |-> registry[i].meal]
JobsOf(n) == Collect(Len(registry), {i \in 1..Len(registry) : registry[i].instance = n}, RegisteredMeals)

\* C30: after any sequence of schedule_meals calls, on one or several
\* instances, the registry holds exactly one job per meal of the DaySchedule
\* scheduled most recently, and the _scheduled_meals of every instance are
\* the meals that still have a registered job created by that instance.
C30_RegistryConsistency ==
    NoCallUnderWay =>
        /\ BagOfMeals(RegisteredMeals) = BagOfMeals(last_scheduled)
        /\ \A n \in Instances :
               BagOfMeals(notifier[n]._scheduled_meals) = BagOfMeals(JobsOf(n))

====
